---------------------------- MODULE Spec2Model ----------------------------
(***************************************************************************)
(* A model of scripts/upload_to_r2.py: the R2DataUploader class and the    *)
(* batch driver main().                                                    *)
(*                                                                         *)
(* Python strings are sequences of one-character strings, so that split,   *)
(* replace, upper, lower, the path suffix and the key formatting are       *)
(* computed character by character as the interpreter computes them.       *)
(***************************************************************************)
EXTENDS Integers, Sequences, FiniteSets, TLC

(***************************************************************************)
(* Bounds of the model.                                                    *)
(***************************************************************************)
\* most files the source directory holds
MaxFiles == 3
\* most successive applications of a normalizer to its own result
MaxApply == 2
\* most '_'-separated tokens of a generated file stem
MaxTokens == 7
\* most Order objects constructed
MaxOrders == 2

(***************************************************************************)
(* str: the string primitives the script uses.                             *)
(***************************************************************************)
LowerCase == <<"a","b","c","d","e","f","g","h","i","j","k","l","m",
               "n","o","p","q","r","s","t","u","v","w","x","y","z">>
UpperCase == <<"A","B","C","D","E","F","G","H","I","J","K","L","M",
               "N","O","P","Q","R","S","T","U","V","W","X","Y","Z">>
Digits == <<"0","1","2","3","4","5","6","7","8","9">>

UpperChar(c) ==
    IF \E k \in 1..26 : LowerCase[k] = c
    THEN UpperCase[CHOOSE k \in 1..26 : LowerCase[k] = c]
    ELSE c

LowerChar(c) ==
    IF \E k \in 1..26 : UpperCase[k] = c
    THEN LowerCase[CHOOSE k \in 1..26 : UpperCase[k] = c]
    ELSE c

\* str.upper()
Upper(s) == [k \in 1..Len(s) |-> UpperChar(s[k])]

\* str.lower()
Lower(s) == [k \in 1..Len(s) |-> LowerChar(s[k])]

\* s[k:k+len(p)] == p
MatchAt(s, p, k) ==
    /\ k + Len(p) - 1 <= Len(s)
    /\ SubSeq(s, k, k + Len(p) - 1) = p

RECURSIVE ReplaceFrom(_, _, _, _)
ReplaceFrom(s, old, new, k) ==
    IF k > Len(s) THEN <<>>
    ELSE IF MatchAt(s, old, k)
         THEN new \o ReplaceFrom(s, old, new, k + Len(old))
         ELSE <<s[k]>> \o ReplaceFrom(s, old, new, k + 1)

\* str.replace(old, new), old not empty: every occurrence, left to right
Replace(s, old, new) == ReplaceFrom(s, old, new, 1)

RECURSIVE SplitFrom(_, _, _, _)
SplitFrom(s, c, k, cur) ==
    IF k > Len(s) THEN <<cur>>
    ELSE IF s[k] = c
         THEN <<cur>> \o SplitFrom(s, c, k + 1, <<>>)
         ELSE SplitFrom(s, c, k + 1, Append(cur, s[k]))

\* str.split(c): the empty string splits into one empty token
Split(s, c) == SplitFrom(s, c, 1, <<>>)

\* s[a:b], 0-based and clipped to the string as Python clips a slice
Slice(s, a, b) == SubSeq(s, a + 1, IF b < Len(s) THEN b ELSE Len(s))

\* str.rfind(c), 1-based; 0 when c does not occur
RFind(s, c) ==
    IF \E k \in 1..Len(s) : s[k] = c
    THEN CHOOSE k \in 1..Len(s) : s[k] = c /\ \A j \in (k+1)..Len(s) : s[j] # c
    ELSE 0

\* Path.name: the final component of a path
PathName(p) == SubSeq(p, RFind(p, "/") + 1, Len(p))

\* Path.suffix: from the last dot of the name, unless that dot is the first
\* or the last character of the name
PathSuffix(p) ==
    LET name == PathName(p)
        d    == RFind(name, ".")
    IN  IF 1 < d /\ d < Len(name) THEN SubSeq(name, d, Len(name)) ELSE <<>>

\* Path.stem: the name without its suffix
PathStem(p) ==
    LET name == PathName(p)
    IN  SubSeq(name, 1, Len(name) - Len(PathSuffix(p)))

(***************************************************************************)
(* String literals of the script and of the file names used below.         *)
(***************************************************************************)
S_BINANCE  == <<"B","I","N","A","N","C","E">>
S_csv      == <<"c","s","v">>
S_parquet  == <<"p","a","r","q","u","e","t">>
S_dot_csv  == <<".">> \o S_csv
S_dot_parquet == <<".">> \o S_parquet
S_dot_zst  == <<".","z","s","t">>
S_yes      == <<"y","e","s">>
S_BTCUSDT  == <<"B","T","C","U","S","D","T">>
S_BTCUSD   == <<"B","T","C","U","S","D">>
S_ETHUSDT  == <<"E","T","H","U","S","D","T">>
S_ETHUSD   == <<"E","T","H","U","S","D">>
S_SOLUSDT  == <<"S","O","L","U","S","D","T">>
S_SOLUSD   == <<"S","O","L","U","S","D">>
S_XXBTZUSD == <<"X","X","B","T","Z","U","S","D">>
S_XETHZUSD == <<"X","E","T","H","Z","U","S","D">>
S_1min     == <<"1","m","i","n">>
S_5min     == <<"5","m","i","n">>
S_15min    == <<"1","5","m","i","n">>
S_1hour    == <<"1","h","o","u","r">>
S_4hour    == <<"4","h","o","u","r">>
S_1day     == <<"1","d","a","y">>
S_1m       == <<"1","m">>
S_5m       == <<"5","m">>
S_15m      == <<"1","5","m">>
S_1h       == <<"1","h">>
S_4h       == <<"4","h">>
S_1d       == <<"1","d">>
S_trades   == <<"t","r","a","d","e","s">>
S_book     == <<"b","o","o","k">>
S_ohlcv    == <<"o","h","l","c","v">>

\* the value None
None == [none |-> TRUE]

(***************************************************************************)
(* R2DataUploader.normalize_asset, normalize_timeframe                     *)
(***************************************************************************)
\* dict.get(key, default) on a dict given as a sequence of <<key, value>>
DictGet(mapping, key, default) ==
    IF \E k \in 1..Len(mapping) : mapping[k][1] = key
    THEN mapping[CHOOSE k \in 1..Len(mapping) : mapping[k][1] = key][2]
    ELSE default

AssetMapping ==
    << <<S_BTCUSDT, S_XXBTZUSD>>,
       <<S_BTCUSD,  S_XXBTZUSD>>,
       <<S_ETHUSDT, S_XETHZUSD>>,
       <<S_ETHUSD,  S_XETHZUSD>>,
       <<S_SOLUSDT, S_SOLUSD>>,
       <<S_SOLUSD,  S_SOLUSD>> >>

TimeframeMapping ==
    << <<S_1min,  S_1m>>,
       <<S_5min,  S_5m>>,
       <<S_15min, S_15m>>,
       <<S_1hour, S_1h>>,
       <<S_1h,    S_1h>>,
       <<S_4hour, S_4h>>,
       <<S_4h,    S_4h>>,
       <<S_1day,  S_1d>>,
       <<S_1d,    S_1d>> >>

\* normalize_asset looking the ticker up as it was given
normalize_asset_case_sensitive(asset) == DictGet(AssetMapping, asset, asset)

normalize_asset(asset) == DictGet(AssetMapping, Upper(asset), asset)

normalize_timeframe(timeframe) ==
    DictGet(TimeframeMapping, Lower(timeframe), timeframe)

(***************************************************************************)
(* R2DataUploader.parse_filename                                           *)
(***************************************************************************)
\* parse_filename comparing the exchange tag as it was given
parse_filename_case_sensitive(file_path) ==
    LET filename == PathStem(file_path)
        parts    == Split(filename, "_")
    IN  IF Len(parts) >= 6 /\ parts[1] = S_BINANCE
        THEN [exchange   |-> parts[1],
              asset      |-> normalize_asset(parts[2]),
              start_date |-> parts[3],
              end_date   |-> parts[4],
              data_type  |-> parts[5],
              timeframe  |-> normalize_timeframe(parts[6]),
              format     |-> Slice(PathSuffix(file_path), 1, Len(PathSuffix(file_path))),
              filename   |-> PathName(file_path)]
        ELSE None

parse_filename(file_path) ==
    LET filename == PathStem(file_path)
        parts    == Split(filename, "_")
    IN  IF Len(parts) >= 6 /\ Upper(parts[1]) = S_BINANCE
        THEN [exchange   |-> parts[1],
              asset      |-> normalize_asset(parts[2]),
              start_date |-> parts[3],
              end_date   |-> parts[4],
              data_type  |-> parts[5],
              timeframe  |-> normalize_timeframe(parts[6]),
              format     |-> Slice(PathSuffix(file_path), 1, Len(PathSuffix(file_path))),
              filename   |-> PathName(file_path)]
        ELSE None

(***************************************************************************)
(* R2DataUploader.determine_quarter, date_to_timestamp                     *)
(***************************************************************************)
IsDigit(c) == \E k \in 1..10 : Digits[k] = c

DigitValue(c) == (CHOOSE k \in 1..10 : Digits[k] = c) - 1

\* int(s) succeeds: a non-empty run of decimal digits (the only numerals the
\* file names of the model hold)
IntOk(s) == Len(s) > 0 /\ \A k \in 1..Len(s) : IsDigit(s[k])

RECURSIVE IntOf(_)
IntOf(s) ==
    IF Len(s) = 0 THEN 0
    ELSE 10 * IntOf(SubSeq(s, 1, Len(s) - 1)) + DigitValue(s[Len(s)])

RECURSIVE StrOfNat(_)
\* str(n) of a natural number
StrOfNat(n) ==
    IF n < 10 THEN <<Digits[n + 1]>>
    ELSE StrOfNat(n \div 10) \o <<Digits[(n % 10) + 1]>>

\* determine_quarter raises (int() of a non-numeral)
determine_quarter_raises(date_str) == ~IntOk(Slice(date_str, 4, 6))

determine_quarter(date_str) ==
    LET year    == Slice(date_str, 0, 4)
        month   == IntOf(Slice(date_str, 4, 6))
        quarter == ((month - 1) \div 3) + 1
    IN  year \o <<"-","Q">> \o StrOfNat(quarter)

IsLeap(y) == (y % 4 = 0 /\ y % 100 # 0) \/ y % 400 = 0

DaysInMonth(y, m) ==
    IF m = 2 THEN (IF IsLeap(y) THEN 29 ELSE 28)
    ELSE IF m \in {4, 6, 9, 11} THEN 30 ELSE 31

\* datetime.strptime(date_str, '%Y%m%d') succeeds, for the eight-character
\* date strings of the naming convention
DateOk(date_str) ==
    /\ Len(date_str) = 8
    /\ IntOk(date_str)
    /\ LET y == IntOf(Slice(date_str, 0, 4))
           m == IntOf(Slice(date_str, 4, 6))
           d == IntOf(Slice(date_str, 6, 8))
       IN  /\ y >= 1
           /\ m \in 1..12
           /\ d \in 1..DaysInMonth(y, m)

\* days from 1970-01-01 to the civil date y-m-d
DaysFromCivil(y, m, d) ==
    LET yy  == IF m <= 2 THEN y - 1 ELSE y
        era == yy \div 400
        yoe == yy - era * 400
        mp  == IF m > 2 THEN m - 3 ELSE m + 9
        doy == ((153 * mp + 2) \div 5) + d - 1
        doe == yoe * 365 + (yoe \div 4) - (yoe \div 100) + doy
    IN  era * 146097 + doe - 719468

\* date_to_timestamp, in whole days since the epoch: the script multiplies
\* the seconds by 1000, and TLC's integers are 32 bits wide, so the model
\* keeps the day count (one day is 86 400 000 ms).  The script reads the
\* date in the zone of the host; the model takes that zone to be UTC.
date_to_timestamp(date_str) ==
    DaysFromCivil(IntOf(Slice(date_str, 0, 4)),
                  IntOf(Slice(date_str, 4, 6)),
                  IntOf(Slice(date_str, 6, 8)))

(***************************************************************************)
(* File contents and the conversions applied to them.                      *)
(***************************************************************************)
\* a CSV file holding the table t
CsvOf(t) == [kind |-> "csv", table |-> t]

\* pq.write_table(table, compression='snappy'): the Parquet file of table t
ParquetOf(t) == [kind |-> "parquet", table |-> t]

\* ZstdCompressor(level=3).compress(data)
ZstdCompress(data) == [kind |-> "zst", level |-> 3, data |-> data]

\* hashlib.sha256 of the bytes of a file, read in 4096-byte chunks
Sha256(data) == [sha256 |-> data]

\* os.path.getsize
GetSize(data) == [size_of |-> data]

\* json.dumps(obj).encode('utf-8')
JsonBytes(obj) == [kind |-> "json", value |-> obj]

\* pa.Table.from_pandas(df, schema=schema) raises on a frame whose columns
\* are not those of the schema
schema_mismatch(content) == ~content.table.schema_ok

(***************************************************************************)
(* R2DataUploader.generate_metadata                                        *)
(***************************************************************************)
\* the path generate_metadata reads the row count from
bars_path(file_path) == Replace(file_path, S_dot_zst, <<>>)

generate_metadata_raises(file_info, file_path, files) ==
    \/ file_path \notin DOMAIN files
    \/ bars_path(file_path) \notin DOMAIN files
    \/ files[bars_path(file_path)].kind # "parquet"
    \/ determine_quarter_raises(file_info.start_date)
    \/ ~DateOk(file_info.start_date)
    \/ ~DateOk(file_info.end_date)

\* data_tier_of comparing the data type without regard to case
data_tier_of_ignoring_case(data_type) ==
    IF Lower(data_type) = S_trades THEN "TIER_3_STANDARD"
    ELSE IF Lower(data_type) = S_book THEN "TIER_1_PREMIUM"
    ELSE "TIER_4_BASIC"

data_tier_of(data_type) ==
    IF data_type = S_trades THEN "TIER_3_STANDARD"
    ELSE IF data_type = S_book THEN "TIER_1_PREMIUM"
    ELSE "TIER_4_BASIC"

\* uploadedAt (the wall clock) is left out
generate_metadata(file_info, file_path, checksum, files) ==
    [asset             |-> file_info.asset,
     timeframe         |-> file_info.timeframe,
     quarter           |-> determine_quarter(file_info.start_date),
     startDate         |-> date_to_timestamp(file_info.start_date),
     endDate           |-> date_to_timestamp(file_info.end_date),
     bars              |-> files[bars_path(file_path)].table.rows,
     dataTier          |-> data_tier_of(file_info.data_type),
     source            |-> file_info.exchange,
     compressed        |-> TRUE,
     compressionFormat |-> "zstd",
     compressionLevel  |-> 3,
     sizeBytes         |-> GetSize(files[file_path]),
     checksumSHA256    |-> checksum,
     version           |-> "1.0"]

S_parquet_zst == S_dot_parquet \o S_dot_zst
S_metadata_json == <<"_","m","e","t","a","d","a","t","a",".","j","s","o","n">>
S_index_json == <<"i","n","d","e","x",".","j","s","o","n">>

\* f"{asset}/{timeframe}/{quarter}.parquet.zst"
data_key_of(metadata) ==
    metadata.asset \o <<"/">> \o metadata.timeframe \o <<"/">>
        \o metadata.quarter \o S_parquet_zst

\* f"{asset}/{timeframe}/{quarter}_metadata.json"
metadata_key_of(metadata) ==
    metadata.asset \o <<"/">> \o metadata.timeframe \o <<"/">>
        \o metadata.quarter \o S_metadata_json

(***************************************************************************)
(* R2DataUploader.generate_index                                           *)
(***************************************************************************)
index_entry(file_info) ==
    [quarter   |-> determine_quarter(file_info.start_date),
     startDate |-> date_to_timestamp(file_info.start_date),
     endDate   |-> date_to_timestamp(file_info.end_date)]

\* add_to_assets assigning a fresh one-entry list where it should append
add_to_assets_overwrite(assets, file_info) ==
    LET asset     == file_info.asset
        timeframe == file_info.timeframe
        a1 == IF asset \in DOMAIN assets THEN assets
              ELSE (asset :> <<>>) @@ assets
        byTf == IF timeframe \in DOMAIN a1[asset] THEN a1[asset]
                ELSE (timeframe :> <<>>) @@ a1[asset]
    IN  [a1 EXCEPT ![asset] =
            [byTf EXCEPT ![timeframe] = <<index_entry(file_info)>>]]

\* one turn of the loop: assets[asset][timeframe].append(entry)
add_to_assets(assets, file_info) ==
    LET asset     == file_info.asset
        timeframe == file_info.timeframe
        a1 == IF asset \in DOMAIN assets THEN assets
              ELSE (asset :> <<>>) @@ assets
        byTf == IF timeframe \in DOMAIN a1[asset] THEN a1[asset]
                ELSE (timeframe :> <<>>) @@ a1[asset]
    IN  [a1 EXCEPT ![asset] =
            [byTf EXCEPT ![timeframe] = Append(@, index_entry(file_info))]]

RECURSIVE assets_of(_)
assets_of(files) ==
    IF Len(files) = 0 THEN <<>>
    ELSE add_to_assets(assets_of(SubSeq(files, 1, Len(files) - 1)),
                       files[Len(files)])

\* generatedAt (the wall clock) is left out
generate_index(files) ==
    [version     |-> "1.0",
     assets      |-> assets_of(files),
     totalAssets |-> Cardinality(DOMAIN assets_of(files)),
     totalFiles  |-> Len(files)]

(***************************************************************************)
(* The files a source directory of the model may hold.                     *)
(***************************************************************************)
RECURSIVE Join(_, _)
\* sep.join(tokens)
Join(tokens, sep) ==
    IF Len(tokens) = 0 THEN <<>>
    ELSE IF Len(tokens) = 1 THEN tokens[1]
    ELSE tokens[1] \o sep \o Join(Tail(tokens), sep)

S_binance  == Lower(S_BINANCE)
S_KRAKEN   == <<"K","R","A","K","E","N">>
S_20240501 == <<"2","0","2","4","0","5","0","1">>
S_20240503 == <<"2","0","2","4","0","5","0","3">>
S_20240101 == <<"2","0","2","4","0","1","0","1">>
S_20240331 == <<"2","0","2","4","0","3","3","1">>
S_20240701 == <<"2","0","2","4","0","7","0","1">>
S_20240930 == <<"2","0","2","4","0","9","3","0">>
S_2024Q1   == <<"2","0","2","4","Q","1">>
S_1H       == Upper(S_1h)

Stem_BTC == Join(<<S_BINANCE, S_BTCUSDT, S_20240501, S_20240503, S_ohlcv, S_1min>>, <<"_">>)
Stem_ETH == Join(<<S_binance, S_ETHUSD, S_20240101, S_20240331, S_trades, S_1H>>, <<"_">>)
Stem_SOL == Join(<<S_BINANCE, S_SOLUSDT, S_20240701, S_20240930, S_book, S_5min>>, <<"_">>)
Stem_KRK == Join(<<S_KRAKEN, S_BTCUSD, S_20240101, S_20240331, S_ohlcv, S_1min>>, <<"_">>)
Stem_BAD == Join(<<S_BINANCE, S_ETHUSDT, S_2024Q1, S_2024Q1, S_ohlcv, S_1d>>, <<"_">>)

\* a table of the given number of rows; schema_ok: its columns are the seven
\* columns of the OHLC schema
Table(id, rows, ok) == [id |-> id, rows |-> rows, schema_ok |-> ok]

\* 1: a CSV file following the convention; 2: a Parquet file of the same
\* stem; 3: a Parquet file with a lower-case exchange tag; 4: a CSV file
\* whose columns are not those of the schema; 5: a file of another exchange;
\* 6: a file whose dates are not dates
Candidates ==
    << [path |-> Stem_BTC \o S_dot_csv,     content |-> CsvOf(Table(1, 2, TRUE))],
       [path |-> Stem_BTC \o S_dot_parquet, content |-> ParquetOf(Table(2, 3, TRUE))],
       [path |-> Stem_ETH \o S_dot_parquet, content |-> ParquetOf(Table(3, 1, TRUE))],
       [path |-> Stem_SOL \o S_dot_csv,     content |-> CsvOf(Table(4, 2, FALSE))],
       [path |-> Stem_KRK \o S_dot_csv,     content |-> CsvOf(Table(5, 2, TRUE))],
       [path |-> Stem_BAD \o S_dot_parquet, content |-> ParquetOf(Table(6, 2, TRUE))] >>

\* the file system holding the candidates of the index set c
DirectoryOf(c) ==
    [p \in {Candidates[k].path : k \in c} |->
        Candidates[CHOOSE k \in c : Candidates[k].path = p].content]

\* what input() may return
Responses ==
    { S_yes, Upper(S_yes), <<"Y","e","s">>, <<"n","o">>, <<"y">>, <<>>,
      <<" ">> \o S_yes }

\* a bucket as an earlier run left it
PreviousBucket ==
    S_index_json :> JsonBytes(generate_index(
        <<parse_filename(Join(<<S_BINANCE, S_SOLUSD, S_20240101, S_20240331,
                                S_ohlcv, S_1day>>, <<"_">>) \o S_dot_parquet)>>))

(***************************************************************************)
(* State.                                                                  *)
(***************************************************************************)
VARIABLES
    args,             \* the parsed command line: dry_run, no_compress
    fs,               \* the local files: path -> content
    bucket,           \* the R2 bucket: key -> body
    pc,               \* where main() is
    data_files,       \* main: the discovered descriptors
    processed_files,  \* main: the descriptors process_and_upload accepted
    pos,              \* main: index into data_files of the file of this turn
    frame,            \* the locals of the running process_and_upload call
    response,         \* what input() returned, <<>> while not asked
    exit_status,      \* the status the process ends with, -1 while it runs
    summary,          \* the "Files processed: a/b" line, <<>> until printed
    events,           \* history: the effects of the run, in order
    initial,          \* history: fs and bucket as the run found them
    px,               \* the argument of the function under test
    pr,               \* the successive results of the function under test
    heap,             \* the Order objects constructed so far, by reference
    orders,           \* OrderTracker._orders: <<order_id, reference>> pairs
    ot_result,        \* history: the last call on the tracker and its outcome
    ot_hist           \* history: per submitted id, the object and its status

trk == <<heap, orders, ot_result, ot_hist>>

vars == <<args, fs, bucket, pc, data_files, processed_files, pos, frame,
          response, exit_status, summary, events, initial, px, pr, trk>>

drv == <<args, fs, bucket, pc, data_files, processed_files, pos, frame,
         response, exit_status, summary, events, initial>>

NoFrame ==
    [parquet_path    |-> <<>>,
     compressed_path |-> <<>>,
     upload_file     |-> <<>>,
     checksum        |-> None,
     metadata        |-> None,
     data_key        |-> <<>>,
     metadata_key    |-> <<>>]

Event(op, at, target) == [op |-> op, pos |-> at, target |-> target]

\* the file of this turn of the loop
file_info == data_files[pos]

InitDriver ==
    /\ args \in [dry_run : BOOLEAN, no_compress : BOOLEAN]
    /\ \E c \in SUBSET (1..Len(Candidates)) :
          /\ Cardinality(c) <= MaxFiles
          /\ fs = DirectoryOf(c)
    /\ bucket \in {<<>>, PreviousBucket}
    /\ pc = "scan"
    /\ data_files = <<>>
    /\ processed_files = <<>>
    /\ pos = 1
    /\ frame = NoFrame
    /\ response = <<>>
    /\ exit_status = -1
    /\ summary = <<>>
    /\ events = <<>>
    /\ initial = [fs |-> fs, bucket |-> bucket]

\* OrderTracker.__init__: no Order constructed, an empty store
InitTracker ==
    /\ heap = <<>>
    /\ orders = <<>>
    /\ ot_result = None
    /\ ot_hist = <<>>

Init ==
    /\ InitDriver
    /\ px = <<>>
    /\ pr = <<>>
    /\ InitTracker

(***************************************************************************)
(* An uncaught exception: the interpreter prints the traceback and the     *)
(* process ends with status 1.                                             *)
(***************************************************************************)
Raise(where) ==
    /\ pc' = "raised"
    /\ exit_status' = 1
    /\ events' = Append(events, Event("raise", pos, where))

(***************************************************************************)
(* R2DataUploader.scan_data_directory and main() up to the confirmation.   *)
(* rglob yields the files in the order of the host's directory listing.    *)
(***************************************************************************)
\* the descriptor scan_data_directory appends for the path p
scanned_info(p) ==
    LET info == parse_filename(p)
    IN  [exchange   |-> info.exchange,
         asset      |-> info.asset,
         start_date |-> info.start_date,
         end_date   |-> info.end_date,
         data_type  |-> info.data_type,
         timeframe  |-> info.timeframe,
         format     |-> info.format,
         filename   |-> info.filename,
         local_path |-> p]

RECURSIVE scan_data_directory(_)
\* listing: the paths of the files under data_dir, in rglob's order
scan_data_directory(listing) ==
    IF Len(listing) = 0 THEN <<>>
    ELSE LET file_path == listing[Len(listing)]
             before    == scan_data_directory(SubSeq(listing, 1, Len(listing) - 1))
         IN  IF /\ PathSuffix(file_path) \in {S_dot_csv, S_dot_parquet}
                /\ parse_filename(file_path) # None
             THEN Append(before, scanned_info(file_path))
             ELSE before

\* the orders in which a directory listing may yield the files
Listings(files) ==
    LET n == Cardinality(DOMAIN files)
    IN  { l \in [1..n -> DOMAIN files] :
            \A a, b \in 1..n : l[a] = l[b] => a = b }

Scan ==
    /\ pc = "scan"
    /\ \E listing \in Listings(fs) :
          /\ data_files' = scan_data_directory(listing)
          /\ IF Len(data_files') = 0
             THEN /\ pc' = "exit"
                  /\ exit_status' = 1
             ELSE /\ pc' = IF args.dry_run THEN "loop" ELSE "confirm"
                  /\ exit_status' = exit_status
    /\ UNCHANGED <<args, fs, bucket, processed_files, pos, frame, response,
                   summary, events, initial, px, pr, trk>>

\* Confirm taking every answer that starts with a y for a yes
Confirm_StartsWithY ==
    /\ pc = "confirm"
    /\ \E r \in Responses :
          /\ response' = <<r>>
          /\ IF Len(r) = 0 \/ Lower(r)[1] # "y"
             THEN /\ pc' = "exit"
                  /\ exit_status' = 0
             ELSE /\ pc' = "loop"
                  /\ exit_status' = exit_status
    /\ UNCHANGED <<args, fs, bucket, data_files, processed_files, pos, frame,
                   summary, events, initial, px, pr, trk>>

\* input("Proceed with upload? (yes/no): ")
Confirm ==
    /\ pc = "confirm"
    /\ \E r \in Responses :
          /\ response' = <<r>>
          /\ IF Lower(r) # S_yes
             THEN /\ pc' = "exit"
                  /\ exit_status' = 0
             ELSE /\ pc' = "loop"
                  /\ exit_status' = exit_status
    /\ UNCHANGED <<args, fs, bucket, data_files, processed_files, pos, frame,
                   summary, events, initial, px, pr, trk>>

\* one turn of the loop of main() under --dry-run
DryRunStep ==
    /\ pc = "loop"
    /\ pos <= Len(data_files)
    /\ args.dry_run
    /\ processed_files' = Append(processed_files, file_info)
    /\ pos' = pos + 1
    /\ UNCHANGED <<args, fs, bucket, pc, data_files, frame, response,
                   exit_status, summary, events, initial, px, pr, trk>>

(***************************************************************************)
(* R2DataUploader.process_and_upload, one action per numbered step.        *)
(***************************************************************************)
\* fs with the file at path written
WriteFile(files, path, content) == (path :> content) @@ files

\* os.remove(path)
RemoveFile(files, path) == [q \in (DOMAIN files) \ {path} |-> files[q]]

\* csv_path.replace('.csv', '.parquet')
parquet_path_of(csv_path) == Replace(csv_path, S_dot_csv, S_dot_parquet)

\* main() calls process_and_upload; Step 1: convert_csv_to_parquet
Convert ==
    /\ pc = "loop"
    /\ pos <= Len(data_files)
    /\ ~args.dry_run
    /\ LET local_path == file_info.local_path
       IN  IF file_info.format = S_csv
           THEN \/ /\ local_path \in DOMAIN fs
                   /\ ~schema_mismatch(fs[local_path])
                   /\ fs' = WriteFile(fs, parquet_path_of(local_path),
                                      ParquetOf(fs[local_path].table))
                   /\ frame' = [NoFrame EXCEPT
                                  !.parquet_path = parquet_path_of(local_path)]
                   /\ events' = Append(events,
                          Event("write", pos, parquet_path_of(local_path)))
                   /\ pc' = "compress"
                   /\ UNCHANGED exit_status
                \/ /\ \/ local_path \notin DOMAIN fs
                      \/ schema_mismatch(fs[local_path])
                   /\ Raise("convert_csv_to_parquet")
                   /\ UNCHANGED <<fs, frame>>
           ELSE /\ frame' = [NoFrame EXCEPT !.parquet_path = local_path]
                /\ pc' = "compress"
                /\ UNCHANGED <<fs, events, exit_status>>
    /\ UNCHANGED <<args, bucket, data_files, processed_files, pos, response,
                   summary, initial, px, pr, trk>>

\* Step 2: compress_file, unless --no-compress
Compress ==
    /\ pc = "compress"
    /\ IF ~args.no_compress
       THEN LET compressed_path == frame.parquet_path \o S_dot_zst
            IN  \/ /\ frame.parquet_path \in DOMAIN fs
                   /\ fs' = WriteFile(fs, compressed_path,
                                      ZstdCompress(fs[frame.parquet_path]))
                   /\ frame' = [frame EXCEPT
                                  !.compressed_path = compressed_path,
                                  !.upload_file = compressed_path]
                   /\ events' = Append(events,
                                       Event("write", pos, compressed_path))
                   /\ pc' = "checksum"
                   /\ UNCHANGED exit_status
                \/ /\ frame.parquet_path \notin DOMAIN fs
                   /\ Raise("compress_file")
                   /\ UNCHANGED <<fs, frame>>
       ELSE /\ frame' = [frame EXCEPT !.upload_file = frame.parquet_path]
            /\ pc' = "checksum"
            /\ UNCHANGED <<fs, events, exit_status>>
    /\ UNCHANGED <<args, bucket, data_files, processed_files, pos, response,
                   summary, initial, px, pr, trk>>

\* Step 3: calculate_checksum; the read may fail
Checksum ==
    /\ pc = "checksum"
    /\ \/ /\ frame.upload_file \in DOMAIN fs
          /\ frame' = [frame EXCEPT !.checksum = Sha256(fs[frame.upload_file])]
          /\ pc' = "metadata"
          /\ UNCHANGED <<exit_status, events>>
       \/ /\ Raise("calculate_checksum")
          /\ UNCHANGED frame
    /\ UNCHANGED <<args, fs, bucket, data_files, processed_files, pos,
                   response, summary, initial, px, pr, trk>>

\* Steps 4 and 5: generate_metadata and the two keys
Metadata ==
    /\ pc = "metadata"
    /\ IF generate_metadata_raises(file_info, frame.upload_file, fs)
       THEN /\ Raise("generate_metadata")
            /\ UNCHANGED frame
       ELSE LET metadata == generate_metadata(file_info, frame.upload_file,
                                              frame.checksum, fs)
            IN  /\ frame' = [frame EXCEPT
                               !.metadata = metadata,
                               !.data_key = data_key_of(metadata),
                               !.metadata_key = metadata_key_of(metadata)]
                /\ pc' = "upload_data"
                /\ UNCHANGED <<exit_status, events>>
    /\ UNCHANGED <<args, fs, bucket, data_files, processed_files, pos,
                   response, summary, initial, px, pr, trk>>

\* UploadData with the "return False" of step 6 missing
UploadData_NoReturn ==
    /\ pc = "upload_data"
    /\ \/ /\ frame.upload_file \in DOMAIN fs
          /\ bucket' = WriteFile(bucket, frame.data_key, fs[frame.upload_file])
          /\ events' = Append(events, Event("put_data", pos, frame.data_key))
       \/ /\ events' = Append(events,
                              Event("put_data_failed", pos, frame.data_key))
          /\ UNCHANGED bucket
    /\ pc' = "upload_metadata"
    /\ UNCHANGED <<args, fs, data_files, processed_files, pos, frame, response,
                   exit_status, summary, initial, px, pr, trk>>

\* UploadData with main() appending the file whatever the call returned
UploadData_AppendsFailed ==
    /\ pc = "upload_data"
    /\ \/ /\ frame.upload_file \in DOMAIN fs
          /\ bucket' = WriteFile(bucket, frame.data_key, fs[frame.upload_file])
          /\ events' = Append(events, Event("put_data", pos, frame.data_key))
          /\ pc' = "upload_metadata"
          /\ UNCHANGED <<frame, pos, processed_files>>
       \/ /\ events' = Append(events,
                              Event("put_data_failed", pos, frame.data_key))
          /\ processed_files' = Append(processed_files, file_info)
          /\ frame' = NoFrame
          /\ pos' = pos + 1
          /\ pc' = "loop"
          /\ UNCHANGED bucket
    /\ UNCHANGED <<args, fs, data_files, response, exit_status, summary,
                   initial, px, pr, trk>>

\* Step 6: upload_to_r2 catches every exception and returns False, and then
\* process_and_upload returns False to main(), which goes to the next file
UploadData ==
    /\ pc = "upload_data"
    /\ \/ /\ frame.upload_file \in DOMAIN fs
          /\ bucket' = WriteFile(bucket, frame.data_key, fs[frame.upload_file])
          /\ events' = Append(events, Event("put_data", pos, frame.data_key))
          /\ pc' = "upload_metadata"
          /\ UNCHANGED <<frame, pos>>
       \/ /\ events' = Append(events,
                              Event("put_data_failed", pos, frame.data_key))
          /\ frame' = NoFrame
          /\ pos' = pos + 1
          /\ pc' = "loop"
          /\ UNCHANGED bucket
    /\ UNCHANGED <<args, fs, data_files, processed_files, response,
                   exit_status, summary, initial, px, pr, trk>>

\* Step 7: put_object of the metadata; its exceptions are not caught
UploadMetadata ==
    /\ pc = "upload_metadata"
    /\ \/ /\ bucket' = WriteFile(bucket, frame.metadata_key,
                                 JsonBytes(frame.metadata))
          /\ events' = Append(events,
                              Event("put_metadata", pos, frame.metadata_key))
          /\ pc' = "cleanup"
          /\ UNCHANGED exit_status
       \/ /\ Raise("put_object")
          /\ UNCHANGED bucket
    /\ UNCHANGED <<args, fs, data_files, processed_files, pos, frame,
                   response, summary, initial, px, pr, trk>>

\* cleanup_targets forgetting the converted Parquet file
cleanup_targets_zst_only(info, fr, compress) ==
    IF compress /\ fr.compressed_path # fr.parquet_path
    THEN <<fr.compressed_path>> ELSE <<>>

\* the files the cleanup removes, in order
cleanup_targets(info, fr, compress) ==
    (IF info.format = S_csv /\ fr.parquet_path # info.local_path
     THEN <<fr.parquet_path>> ELSE <<>>)
    \o
    (IF compress /\ fr.compressed_path # fr.parquet_path
     THEN <<fr.compressed_path>> ELSE <<>>)

RECURSIVE RemoveAll(_, _)
RemoveAll(files, paths) ==
    IF Len(paths) = 0 THEN files
    ELSE RemoveAll(RemoveFile(files, paths[1]), Tail(paths))

\* the cleanup; process_and_upload returns True and main() appends the file
Cleanup ==
    /\ pc = "cleanup"
    /\ LET targets == cleanup_targets(file_info, frame, ~args.no_compress)
       IN  /\ fs' = RemoveAll(fs, targets)
           /\ events' = Append(
                  events \o [k \in 1..Len(targets) |->
                                Event("remove", pos, targets[k])],
                  Event("return_true", pos, file_info.local_path))
    /\ processed_files' = Append(processed_files, file_info)
    /\ frame' = NoFrame
    /\ pos' = pos + 1
    /\ pc' = "loop"
    /\ UNCHANGED <<args, bucket, data_files, response, exit_status, summary,
                   initial, px, pr, trk>>

(***************************************************************************)
(* main() after the loop.                                                  *)
(***************************************************************************)
\* PublishIndex without the "if not args.dry_run" around it
PublishIndex_Always ==
    /\ pc = "loop"
    /\ pos > Len(data_files)
    /\ bucket' = WriteFile(bucket, S_index_json,
                           JsonBytes(generate_index(processed_files)))
    /\ events' = Append(events, Event("put_index", pos, S_index_json))
    /\ pc' = "summary"
    /\ UNCHANGED <<args, fs, data_files, processed_files, pos, frame,
                   response, exit_status, summary, initial, px, pr, trk>>

\* generate_index and upload_index; put_object's exceptions are not caught
PublishIndex ==
    /\ pc = "loop"
    /\ pos > Len(data_files)
    /\ ~args.dry_run
    /\ \/ /\ bucket' = WriteFile(bucket, S_index_json,
                                 JsonBytes(generate_index(processed_files)))
          /\ events' = Append(events, Event("put_index", pos, S_index_json))
          /\ pc' = "summary"
          /\ UNCHANGED exit_status
       \/ /\ Raise("upload_index")
          /\ UNCHANGED bucket
    /\ UNCHANGED <<args, fs, data_files, processed_files, pos, frame,
                   response, summary, initial, px, pr, trk>>

\* the closing lines and return 0
Summary ==
    /\ \/ pc = "summary"
       \/ pc = "loop" /\ pos > Len(data_files) /\ args.dry_run
    /\ summary' = <<Len(processed_files), Len(data_files)>>
    /\ exit_status' = 0
    /\ pc' = "exit"
    /\ UNCHANGED <<args, fs, bucket, data_files, processed_files, pos, frame,
                   response, events, initial, px, pr, trk>>

Next ==
    \/ Scan
    \/ Confirm
    \/ DryRunStep
    \/ Convert
    \/ Compress
    \/ Checksum
    \/ Metadata
    \/ UploadData
    \/ UploadMetadata
    \/ Cleanup
    \/ PublishIndex
    \/ Summary

Spec == Init /\ [][Next]_vars

(***************************************************************************)
(* The functions of R2DataUploader applied to arguments of their own: the  *)
(* uploader is constructed, main() has not started.                        *)
(***************************************************************************)
\* c in the other case
FlipChar(c) == IF UpperChar(c) # c THEN UpperChar(c) ELSE LowerChar(c)

\* the word w in every mix of upper and lower case
CaseVariants(w) ==
    { [k \in 1..Len(w) |-> IF k \in m THEN FlipChar(w[k]) ELSE w[k]] :
        m \in SUBSET (1..Len(w)) }

S_DOGEUSDT == <<"D","O","G","E","U","S","D","T">>
S_2h       == <<"2","h">>

AssetInputs ==
    UNION { CaseVariants(w) :
              w \in {S_BTCUSDT, S_BTCUSD, S_ETHUSDT, S_ETHUSD, S_SOLUSDT,
                     S_SOLUSD, S_XXBTZUSD, S_XETHZUSD} }
    \cup { <<>>, S_DOGEUSDT, Lower(S_DOGEUSDT), S_BTCUSDT \o <<" ">>,
           <<"B","T","C">>, <<"U","S","D","T">> }

TimeframeInputs ==
    UNION { CaseVariants(w) :
              w \in {S_1min, S_5min, S_15min, S_1hour, S_1h, S_4hour, S_4h,
                     S_1day, S_1d, S_1m, S_5m, S_15m} }
    \cup { <<>>, S_2h, <<"1","w">>, <<"1"," ","m","i","n">>, <<"m","i","n">> }

\* the tokens a generated stem may hold at position k
TokenChoices(k) ==
    IF k = 1 THEN { S_BINANCE, S_binance, <<"B","i","n","a","n","c","e">>,
                    S_KRAKEN, <<>>, S_BINANCE \o <<"S">> }
    ELSE IF k = 2 THEN { S_BTCUSDT, Lower(S_ETHUSD), S_DOGEUSDT, <<>> }
    ELSE IF k = 3 THEN { S_20240501 }
    ELSE IF k = 4 THEN { S_20240503 }
    ELSE IF k = 5 THEN { S_ohlcv, S_trades }
    ELSE IF k = 6 THEN { S_1min, S_1H, S_2h }
    ELSE { <<"x">> }

RECURSIVE TokenLists(_, _)
\* the token lists for the positions k..n
TokenLists(k, n) ==
    IF k > n THEN { <<>> }
    ELSE { <<t>> \o rest : t \in TokenChoices(k), rest \in TokenLists(k + 1, n) }

ParseInputs ==
    { [fn     |-> "parse_filename",
       tokens |-> tokens,
       arg    |-> dir \o Join(tokens, <<"_">>) \o suffix] :
        tokens \in UNION { TokenLists(1, n) : n \in 1..MaxTokens },
        dir    \in { <<>>, <<"a","_","b","/">> },
        suffix \in { S_dot_csv, S_dot_parquet, <<>>, <<".","t","x","t">> } }

\* the data_type values generate_metadata is given
DataTypeInputs ==
    UNION { CaseVariants(w) : w \in {S_book, S_trades, S_ohlcv} }
    \cup { <<>>, <<"b","o","o","k","s">>, <<"t","r","a","d","e">>,
           <<"q","u","o","t","e","s">>, <<"o","r","d","e","r","_">> \o S_book,
           S_book \o <<" ">>, <<"o","h","l","c">> }

PureInputs ==
    { [fn |-> "generate_metadata", tokens |-> <<>>, arg |-> d] :
        d \in DataTypeInputs }
    \cup
    { [fn |-> "normalize_asset", tokens |-> <<>>, arg |-> a] : a \in AssetInputs }
    \cup
    { [fn |-> "normalize_timeframe", tokens |-> <<>>, arg |-> t] :
        t \in TimeframeInputs }
    \cup ParseInputs

InitPure ==
    /\ args = [dry_run |-> FALSE, no_compress |-> FALSE]
    /\ fs = <<>>
    /\ bucket = <<>>
    /\ pc = "scan"
    /\ data_files = <<>>
    /\ processed_files = <<>>
    /\ pos = 1
    /\ frame = NoFrame
    /\ response = <<>>
    /\ exit_status = -1
    /\ summary = <<>>
    /\ events = <<>>
    /\ initial = [fs |-> fs, bucket |-> bucket]
    /\ px \in PureInputs
    /\ pr = <<>>
    /\ InitTracker

\* the value the next application takes: the argument, then the last result
Operand == IF Len(pr) = 0 THEN px.arg ELSE pr[Len(pr)]

CallNormalizeAsset ==
    /\ px.fn = "normalize_asset"
    /\ Len(pr) < MaxApply
    /\ pr' = Append(pr, normalize_asset(Operand))
    /\ UNCHANGED <<drv, px, trk>>

CallNormalizeTimeframe ==
    /\ px.fn = "normalize_timeframe"
    /\ Len(pr) < MaxApply
    /\ pr' = Append(pr, normalize_timeframe(Operand))
    /\ UNCHANGED <<drv, px, trk>>

CallParseFilename ==
    /\ px.fn = "parse_filename"
    /\ Len(pr) = 0
    /\ pr' = <<parse_filename(px.arg)>>
    /\ UNCHANGED <<drv, px, trk>>

\* scan_data_directory over a directory that holds the one file px.arg
CallScanDataDirectory ==
    /\ px.fn = "parse_filename"
    /\ Len(pr) = 1
    /\ pr' = Append(pr, scan_data_directory(<<px.arg>>))
    /\ UNCHANGED <<drv, px, trk>>

\* generate_metadata for a compressed Parquet file of two rows, with the
\* descriptor of a file following the convention and data_type set to px.arg
CallGenerateMetadata ==
    /\ px.fn = "generate_metadata"
    /\ Len(pr) = 0
    /\ LET parquet == Stem_BTC \o S_dot_parquet
           artifact == parquet \o S_dot_zst
           files == (parquet :> ParquetOf(Table(1, 2, TRUE)))
                    @@ (artifact :> ZstdCompress(ParquetOf(Table(1, 2, TRUE))))
           info == [scanned_info(parquet) EXCEPT !.data_type = px.arg]
       IN  /\ ~generate_metadata_raises(info, artifact, files)
           /\ pr' = <<generate_metadata(info, artifact,
                                        Sha256(files[artifact]), files)>>
    /\ UNCHANGED <<drv, px, trk>>

NextPure ==
    \/ CallGenerateMetadata
    \/ CallNormalizeAsset
    \/ CallNormalizeTimeframe
    \/ CallParseFilename
    \/ CallScanDataDirectory

SpecPure == InitPure /\ [][NextPure]_vars

(***************************************************************************)
(* crypto_trader.orders.order_tracker: Order, OrderStatus, OrderTracker.   *)
(* An Order is an object: the tracker stores a reference to the object it  *)
(* is given, and the caller keeps the same object.                         *)
(***************************************************************************)
PENDING   == "pending"
FILLED    == "filled"
CANCELLED == "cancelled"
OrderStatus == {PENDING, FILLED, CANCELLED}

\* the ids and the other fields the constructed orders take
OrderIds == {"1", "2"}
OrderDetails ==
    { [symbol |-> "BTCUSD", side |-> "buy",  quantity |-> 1, price |-> 100],
      [symbol |-> "ETHUSD", side |-> "sell", quantity |-> 2, price |-> 50] }

\* Order(order_id, symbol, side, quantity, price, status); created_at (the
\* wall clock) is left out
Order(order_id, details, status) ==
    [order_id |-> order_id,
     symbol   |-> details.symbol,
     side     |-> details.side,
     quantity |-> details.quantity,
     price    |-> details.price,
     status   |-> status]

\* key in dict, for a dict given as a sequence of <<key, value>>
DictHas(mapping, key) == \E k \in 1..Len(mapping) : mapping[k][1] = key

\* the outcome of a call on the tracker, with the state the call found
CallResult(call, order_id, outcome, value) ==
    [call     |-> call,
     order_id |-> order_id,
     outcome  |-> outcome,
     value    |-> value,
     before   |-> [heap |-> heap, orders |-> orders]]

\* the caller constructs an Order, status PENDING unless given
NewOrder ==
    /\ Len(heap) < MaxOrders
    /\ \E order_id \in OrderIds, details \in OrderDetails,
          status \in {PENDING, FILLED} :
          heap' = Append(heap, Order(order_id, details, status))
    /\ UNCHANGED <<drv, px, pr, orders, ot_result, ot_hist>>

\* OrderTracker.submit storing the order whether or not its id is present
Submit_Overwrites ==
    /\ \E ref \in 1..Len(heap) :
          LET order_id == heap[ref].order_id
          IN  /\ orders' =
                    IF DictHas(orders, order_id)
                    THEN [k \in 1..Len(orders) |->
                            IF orders[k][1] = order_id
                            THEN <<order_id, ref>> ELSE orders[k]]
                    ELSE Append(orders, <<order_id, ref>>)
              /\ ot_hist' = (order_id :> [ref |-> ref, order |-> heap[ref],
                                          status |-> heap[ref].status])
                            @@ ot_hist
              /\ ot_result' = CallResult("submit", order_id, "ok", <<>>)
    /\ UNCHANGED <<drv, px, pr, heap>>

\* OrderTracker.submit
Submit ==
    /\ \E ref \in 1..Len(heap) :
          LET order_id == heap[ref].order_id
          IN  IF DictHas(orders, order_id)
              THEN /\ ot_result' =
                         CallResult("submit", order_id, "ValueError", <<>>)
                   /\ UNCHANGED <<orders, ot_hist>>
              ELSE /\ orders' = Append(orders, <<order_id, ref>>)
                   /\ ot_hist' = (order_id :> [ref |-> ref, order |-> heap[ref],
                                               status |-> heap[ref].status])
                                 @@ ot_hist
                   /\ ot_result' = CallResult("submit", order_id, "ok", <<>>)
    /\ UNCHANGED <<drv, px, pr, heap>>

\* OrderTracker.update_status
UpdateStatus ==
    /\ \E order_id \in OrderIds, status \in OrderStatus :
          IF ~DictHas(orders, order_id)
          THEN /\ ot_result' =
                     CallResult("update_status", order_id, "KeyError", <<>>)
               /\ UNCHANGED <<heap, ot_hist>>
          ELSE /\ heap' = [heap EXCEPT
                             ![DictGet(orders, order_id, 0)].status = status]
               /\ ot_hist' = [ot_hist EXCEPT ![order_id].status = status]
               /\ ot_result' =
                     CallResult("update_status", order_id, "ok", <<>>)
    /\ UNCHANGED <<drv, px, pr, orders>>

\* OrderTracker.list_orders
ListOrders ==
    /\ ot_result' = CallResult("list_orders", "", "ok",
                               [k \in 1..Len(orders) |-> orders[k][2]])
    /\ UNCHANGED <<drv, px, pr, heap, orders, ot_hist>>

\* OrderTracker.get_order
GetOrder ==
    /\ \E order_id \in OrderIds :
          ot_result' =
             IF ~DictHas(orders, order_id)
             THEN CallResult("get_order", order_id, "KeyError", <<>>)
             ELSE CallResult("get_order", order_id, "ok",
                             <<DictGet(orders, order_id, 0)>>)
    /\ UNCHANGED <<drv, px, pr, heap, orders, ot_hist>>

InitOrders ==
    /\ args = [dry_run |-> FALSE, no_compress |-> FALSE]
    /\ fs = <<>>
    /\ bucket = <<>>
    /\ pc = "scan"
    /\ data_files = <<>>
    /\ processed_files = <<>>
    /\ pos = 1
    /\ frame = NoFrame
    /\ response = <<>>
    /\ exit_status = -1
    /\ summary = <<>>
    /\ events = <<>>
    /\ initial = [fs |-> fs, bucket |-> bucket]
    /\ px = <<>>
    /\ pr = <<>>
    /\ InitTracker

NextOrders ==
    \/ NewOrder
    \/ Submit
    \/ UpdateStatus
    \/ ListOrders
    \/ GetOrder

SpecOrders == InitOrders /\ [][NextOrders]_vars

(***************************************************************************)
(* Vocabulary of the properties.                                           *)
(***************************************************************************)
Range(f) == { f[k] : k \in DOMAIN f }

\* the positions of the loop at which an event of kind op happened
PositionsOf(op) == { events[k].pos : k \in { j \in 1..Len(events) : events[j].op = op } }

\* the paths or keys of the events of kind op at loop position q
TargetsOf(op, q) ==
    { events[k].target :
        k \in { j \in 1..Len(events) : events[j].op = op /\ events[j].pos = q } }

\* the answer is 'yes' in some mix of upper and lower case
IsYes(r) ==
    /\ Len(r) = 3
    /\ r[1] \in {"y", "Y"}
    /\ r[2] \in {"e", "E"}
    /\ r[3] \in {"s", "S"}

\* the run is no dry run and the operator answered yes
Confirmed == ~args.dry_run /\ response # <<>> /\ IsYes(response[1])

\* the run changed something outside itself, or is in the middle of a file
Acted ==
    \/ events # <<>>
    \/ fs # initial.fs
    \/ bucket # initial.bucket
    \/ frame # NoFrame
    \/ pc \in {"compress", "checksum", "metadata", "upload_data",
               "upload_metadata", "cleanup", "summary"}

\* the sequence s without its q-th element
Without(s, q) ==
    [k \in 1..(Len(s) - 1) |-> IF k < q THEN s[k] ELSE s[k + 1]]

RECURSIVE EntriesUnder(_, _, _)
\* the index entries of those of the files that have asset a and timeframe
\* t, in the order of the files
EntriesUnder(files, a, t) ==
    IF Len(files) = 0 THEN <<>>
    ELSE (IF files[1].asset = a /\ files[1].timeframe = t
          THEN << [quarter   |-> determine_quarter(files[1].start_date),
                   startDate |-> date_to_timestamp(files[1].start_date),
                   endDate   |-> date_to_timestamp(files[1].end_date)] >>
          ELSE <<>>)
         \o EntriesUnder(Tail(files), a, t)

RECURSIVE SumOver(_, _)
\* the sum of f[x] over the finite set dom
SumOver(f, dom) ==
    IF dom = {} THEN 0
    ELSE LET x == CHOOSE y \in dom : TRUE
         IN  f[x] + SumOver(f, dom \ {x})

\* the number of entries of an index, over all its lists
EntryCount(index) ==
    SumOver([a \in DOMAIN index.assets |->
                SumOver([t \in DOMAIN index.assets[a] |->
                            Len(index.assets[a][t])],
                        DOMAIN index.assets[a])],
            DOMAIN index.assets)

\* the index read back from the bucket
PublishedIndex == bucket[S_index_json].value

\* index is the aggregation of exactly the descriptors files
Aggregates(index, files) ==
    /\ index.totalFiles = Len(files)
    /\ EntryCount(index) = Len(files)
    /\ DOMAIN index.assets = { files[k].asset : k \in 1..Len(files) }
    /\ index.totalAssets = Cardinality({ files[k].asset : k \in 1..Len(files) })
    /\ \A a \in DOMAIN index.assets :
          /\ DOMAIN index.assets[a] =
                { files[k].timeframe :
                    k \in { j \in 1..Len(files) : files[j].asset = a } }
          /\ \A t \in DOMAIN index.assets[a] :
                index.assets[a][t] = EntriesUnder(files, a, t)

\* the run is over
Ended == pc \in {"exit", "raised"}

(***************************************************************************)
(* C1: for each file the metadata object is written to the bucket only     *)
(* after the data upload of that same file succeeded; when the data        *)
(* upload of a file fails the call returns failure (main does not keep     *)
(* the file) and no metadata object is written for that file.              *)
(***************************************************************************)
C1_MetadataOnlyAfterData ==
    /\ \A k \in 1..Len(events) :
          events[k].op = "put_metadata" =>
              \E j \in 1..(k - 1) :
                 /\ events[j].op = "put_data"
                 /\ events[j].pos = events[k].pos
    /\ \A q \in PositionsOf("put_data_failed") :
          /\ q \notin PositionsOf("put_metadata")
          /\ q \notin PositionsOf("return_true")
          /\ data_files[q] \notin Range(processed_files)

\* a run in which one file was published and the data upload of another failed
C1_Witness ==
    /\ pc = "exit"
    /\ PositionsOf("put_metadata") # {}
    /\ PositionsOf("put_data_failed") # {}

C3_PerFileFailureContinues ==
    \A k \in 1..Len(events) :
        events[k].op = "raise" =>
            events[k].target \notin {"convert_csv_to_parquet",
                                     "calculate_checksum"}

(***************************************************************************)
(* C4: under --dry-run nothing is transcoded, compressed, created,         *)
(* deleted or uploaded, no index is published and no confirmation is       *)
(* asked: the run discovers the files and reports them.                    *)
(***************************************************************************)
C4_DryRunChangesNothing ==
    args.dry_run =>
        /\ fs = initial.fs
        /\ bucket = initial.bucket
        /\ events = <<>>
        /\ frame = NoFrame
        /\ response = <<>>
        /\ pc \in {"scan", "loop", "exit"}
        /\ summary # <<>> => summary = <<Len(data_files), Len(data_files)>>

\* a dry run over two discovered files, a bucket that holds an index, ended
C4_Witness ==
    /\ args.dry_run
    /\ pc = "exit"
    /\ summary = <<2, 2>>
    /\ initial.bucket # <<>>

(***************************************************************************)
(* C5: without --dry-run nothing is transcoded or uploaded and no index    *)
(* is published unless a file was discovered and the operator answered     *)
(* yes, in any mix of case; with no file discovered the run ends with a    *)
(* non-zero status, and with any other answer it ends with status 0,       *)
(* having written nothing.                                                 *)
(***************************************************************************)
C5_ConfirmationGate ==
    ~args.dry_run =>
        /\ Acted => Len(data_files) >= 1 /\ Confirmed
        /\ (pc # "scan" /\ Len(data_files) = 0) =>
              /\ pc = "exit"
              /\ exit_status # 0
              /\ response = <<>>
              /\ ~Acted
        /\ (response # <<>> /\ ~IsYes(response[1])) =>
              /\ pc = "exit"
              /\ exit_status = 0
              /\ ~Acted

\* the operator answered something that is not yes and the run is over
C5_Witness ==
    /\ ~args.dry_run
    /\ response = << <<"y">> >>
    /\ pc = "exit"
    /\ Len(data_files) = 2

(***************************************************************************)
(* C6: for every published file, with or without --no-compress, the        *)
(* checksum of its metadata is the digest of the compressed artifact, the  *)
(* compressed artifact is what the data key holds, and the checksum is     *)
(* not the digest of the uncompressed artifact.                            *)
(***************************************************************************)
C6_ChecksumOfCompressedArtifact ==
    pc = "cleanup" =>
        LET artifact == fs[frame.parquet_path]
        IN  /\ frame.metadata.checksumSHA256 = Sha256(ZstdCompress(artifact))
            /\ bucket[frame.data_key] = ZstdCompress(artifact)
            /\ bucket[frame.metadata_key].value.checksumSHA256
                  = Sha256(bucket[frame.data_key])
            /\ frame.metadata.checksumSHA256 # Sha256(artifact)

(***************************************************************************)
(* C7: the index a confirmed run publishes aggregates the files for which  *)
(* process_and_upload returned success in this run and nothing else,       *)
(* whatever index the bucket held before: totalFiles is their number and   *)
(* the number of entries over all lists, totalAssets the number of their   *)
(* distinct canonical assets, and each list holds the entries of the       *)
(* files of its asset and timeframe in processing order.                   *)
(***************************************************************************)
C7_IndexIsAggregationOfThisRun ==
    PositionsOf("put_index") # {} =>
        /\ Confirmed
        /\ S_index_json \in DOMAIN bucket
        /\ { k \in 1..Len(data_files) : data_files[k] \in Range(processed_files) }
              = PositionsOf("return_true")
        /\ Len(processed_files) = Cardinality(PositionsOf("return_true"))
        /\ \A a, b \in 1..Len(processed_files) :
              a < b =>
                 \E x, y \in 1..Len(data_files) :
                    /\ x < y
                    /\ data_files[x] = processed_files[a]
                    /\ data_files[y] = processed_files[b]
        /\ Aggregates(PublishedIndex, processed_files)

\* the bucket held an index of another asset, and the run published two
\* files of one asset and timeframe
C7_Witness ==
    /\ PositionsOf("put_index") # {}
    /\ initial.bucket # <<>>
    /\ Len(processed_files) = 2
    /\ processed_files[1].asset = processed_files[2].asset
    /\ processed_files[1].timeframe = processed_files[2].timeframe
    /\ Len(data_files) = 3

(***************************************************************************)
(* C8: when process_and_upload has returned, the intermediate files it     *)
(* wrote for the file (the Parquet file converted from a CSV source, the   *)
(* .zst file) are all gone if the data and metadata uploads succeeded,     *)
(* and are all still there if the data upload failed.                      *)
(***************************************************************************)
C8_ArtifactsAfterReturn ==
    (pc = "loop" /\ pos > 1 /\ ~args.dry_run) =>
        LET q       == pos - 1
            written == TargetsOf("write", q)
        IN  /\ q \in PositionsOf("return_true") =>
                  /\ q \in PositionsOf("put_data")
                  /\ q \in PositionsOf("put_metadata")
                  /\ written \cap DOMAIN fs = {}
            /\ q \in PositionsOf("put_data_failed") =>
                  /\ written \subseteq DOMAIN fs
                  /\ TargetsOf("remove", q) = {}

\* a CSV file was converted and compressed and its data upload failed, after
\* an earlier file whose two uploads succeeded
C8_Witness ==
    /\ pc = "loop"
    /\ pos = 3
    /\ 1 \in PositionsOf("return_true")
    /\ TargetsOf("write", 1) # {}
    /\ 2 \in PositionsOf("put_data_failed")
    /\ Cardinality(TargetsOf("write", 2)) = 2

(***************************************************************************)
(* The canonical vocabulary, as the specification of the normalizers.      *)
(***************************************************************************)
CanonicalAsset(x) ==
    LET l == Lower(x)
    IN  IF l \in {Lower(S_BTCUSDT), Lower(S_BTCUSD)} THEN S_XXBTZUSD
        ELSE IF l \in {Lower(S_ETHUSDT), Lower(S_ETHUSD)} THEN S_XETHZUSD
        ELSE IF l \in {Lower(S_SOLUSDT), Lower(S_SOLUSD)} THEN S_SOLUSD
        ELSE x

CanonicalTimeframe(x) ==
    LET u == Upper(x)
    IN  IF u = Upper(S_1min) THEN S_1m
        ELSE IF u = Upper(S_5min) THEN S_5m
        ELSE IF u = Upper(S_15min) THEN S_15m
        ELSE IF u \in {Upper(S_1hour), Upper(S_1h)} THEN S_1h
        ELSE IF u \in {Upper(S_4hour), Upper(S_4h)} THEN S_4h
        ELSE IF u \in {Upper(S_1day), Upper(S_1d)} THEN S_1d
        ELSE x

(***************************************************************************)
(* C9: parse_filename returns a descriptor exactly when the stem has at    *)
(* least 6 '_'-separated tokens and the first is BINANCE in some mix of    *)
(* case; the descriptor's exchange, asset, start_date, end_date,           *)
(* data_type and timeframe are then tokens 1 to 6, asset and timeframe in  *)
(* canonical form; otherwise there is no match and scan_data_directory     *)
(* leaves the file out.                                                    *)
(***************************************************************************)
C9_ParseFilename ==
    (px # <<>> /\ px.fn = "parse_filename" /\ Len(pr) >= 1) =>
        LET tok   == px.tokens
            match == Len(tok) >= 6 /\ Lower(tok[1]) = Lower(S_BINANCE)
        IN  /\ (pr[1] # None) <=> match
            /\ match =>
                  /\ pr[1].exchange = tok[1]
                  /\ pr[1].asset = CanonicalAsset(tok[2])
                  /\ pr[1].start_date = tok[3]
                  /\ pr[1].end_date = tok[4]
                  /\ pr[1].data_type = tok[5]
                  /\ pr[1].timeframe = CanonicalTimeframe(tok[6])
            /\ Len(pr) >= 2 =>
                  /\ ~match => Len(pr[2]) = 0
                  /\ (match /\ PathSuffix(px.arg) \in {S_dot_csv, S_dot_parquet})
                        => /\ Len(pr[2]) = 1
                           /\ pr[2][1].local_path = px.arg
                           /\ pr[2][1].asset = pr[1].asset

\* a stem of seven tokens with a lower-case exchange tag was parsed and
\* scanned
C9_Witness ==
    /\ px # <<>>
    /\ px.fn = "parse_filename"
    /\ Len(px.tokens) = 7
    /\ px.tokens[1] = S_binance
    /\ Len(pr) = 2
    /\ pr[1] # None
    /\ Len(pr[2]) = 1

(***************************************************************************)
(* C10: normalize_asset and normalize_timeframe never fail; a known        *)
(* ticker or timeframe token in any mix of case maps to its canonical      *)
(* form, any other string is returned unchanged, and applying the          *)
(* function to its own result changes nothing.                             *)
(***************************************************************************)
C10_NormalizersTotalIdempotent ==
    /\ (px # <<>> /\ px.fn = "normalize_asset") =>
          /\ Len(pr) < MaxApply => ENABLED CallNormalizeAsset
          /\ Len(pr) >= 1 => pr[1] = CanonicalAsset(px.arg)
          /\ \A k \in 2..Len(pr) : pr[k] = pr[k - 1]
    /\ (px # <<>> /\ px.fn = "normalize_timeframe") =>
          /\ Len(pr) < MaxApply => ENABLED CallNormalizeTimeframe
          /\ Len(pr) >= 1 => pr[1] = CanonicalTimeframe(px.arg)
          /\ \A k \in 2..Len(pr) : pr[k] = pr[k - 1]

\* a known ticker in mixed case was normalized twice
C10_Witness ==
    /\ px # <<>>
    /\ px.fn = "normalize_asset"
    /\ px.arg = <<"b","t","c","U","S","D","T">>
    /\ Len(pr) = 2
    /\ pr[1] = S_XXBTZUSD

(***************************************************************************)
(* C11: generate_metadata sets dataTier to TIER_1_PREMIUM for the          *)
(* data_type 'book', to TIER_3_STANDARD for 'trades', and to TIER_4_BASIC  *)
(* for 'ohlcv' and for every other value.                                  *)
(***************************************************************************)
C11_DataTier ==
    (px # <<>> /\ px.fn = "generate_metadata" /\ Len(pr) = 1) =>
        /\ px.arg = <<"b","o","o","k">> => pr[1].dataTier = "TIER_1_PREMIUM"
        /\ px.arg = <<"t","r","a","d","e","s">>
              => pr[1].dataTier = "TIER_3_STANDARD"
        /\ px.arg \notin { <<"b","o","o","k">>, <<"t","r","a","d","e","s">> }
              => pr[1].dataTier = "TIER_4_BASIC"

\* the metadata of a file whose data_type is 'Book', which is no 'book'
C11_Witness ==
    /\ px # <<>>
    /\ px.fn = "generate_metadata"
    /\ px.arg = <<"B","o","o","k">>
    /\ Len(pr) = 1
    /\ pr[1].dataTier = "TIER_4_BASIC"
    /\ pr[1].bars = 2

(***************************************************************************)
(* C12: after any sequence of submit and update_status calls, the store    *)
(* holds under each submitted id the order submitted under it, with the    *)
(* status of the last successful update_status of that id, or its status   *)
(* at submission if there was none, and get_order returns that order;      *)
(* update_status changes the status of its order and nothing else; submit  *)
(* of a present id raises ValueError, update_status and get_order of an    *)
(* unknown id raise KeyError, and a call that raises changes nothing.      *)
(***************************************************************************)
C12_OrderTracker ==
    LET keys(mapping) == { mapping[k][1] : k \in 1..Len(mapping) }
    IN  /\ keys(orders) = DOMAIN ot_hist
        /\ \A a, b \in 1..Len(orders) : orders[a][1] = orders[b][1] => a = b
        /\ \A id \in DOMAIN ot_hist :
              LET ref == DictGet(orders, id, 0)
              IN  /\ ref = ot_hist[id].ref
                  /\ heap[ref] = [ot_hist[id].order EXCEPT
                                    !.status = ot_hist[id].status]
                  /\ heap[ref].order_id = id
        /\ ot_result # None =>
              LET was == ot_result.before
                  id  == ot_result.order_id
              IN  /\ ot_result.outcome # "ok" =>
                        /\ orders = was.orders
                        /\ \A r \in 1..Len(was.heap) : heap[r] = was.heap[r]
                  /\ ot_result.call = "submit" =>
                        (ot_result.outcome = "ValueError"
                            <=> id \in keys(was.orders))
                  /\ ot_result.call \in {"update_status", "get_order"} =>
                        (ot_result.outcome = "KeyError"
                            <=> id \notin keys(was.orders))
                  /\ (ot_result.call = "update_status"
                        /\ ot_result.outcome = "ok") =>
                        /\ orders = was.orders
                        /\ \A r \in 1..Len(was.heap) :
                              r # DictGet(orders, id, 0) => heap[r] = was.heap[r]
                  /\ (ot_result.call = "get_order"
                        /\ ot_result.outcome = "ok") =>
                        /\ ot_result.value = <<ot_hist[id].ref>>
                        /\ orders = was.orders
                        /\ \A r \in 1..Len(was.heap) : heap[r] = was.heap[r]

\* two orders are stored, the second was cancelled, the first is as it was
\* submitted, and get_order has just returned the second
C12_Witness ==
    /\ Len(orders) = 2
    /\ ot_result # None
    /\ ot_result.call = "get_order"
    /\ ot_result.outcome = "ok"
    /\ ot_result.order_id = orders[2][1]
    /\ heap[orders[2][2]].status = CANCELLED
    /\ heap[orders[1][2]].status = PENDING

(***************************************************************************)
(* C13: processing a batch never overwrites or deletes a discovered        *)
(* source file: each discovered file is there with its original content    *)
(* when its own turn in the loop comes and when the run has ended.         *)
(***************************************************************************)
C13_SourceFilesKept ==
    \A k \in 1..Len(data_files) :
       LET path == data_files[k].local_path
       IN  ((pc = "loop" /\ pos = k) \/ Ended) =>
              /\ path \in DOMAIN fs
              /\ fs[path] = initial.fs[path]

(***************************************************************************)
(* C14: in the index the run published no asset/timeframe list holds two   *)
(* entries of the same quarter; totalFiles is the number of distinct data  *)
(* objects the run wrote, and no kept file's data object was written       *)
(* again for another file of the run.                                      *)
(***************************************************************************)
C14_OneEntryPerDataKey ==
    PositionsOf("put_index") # {} =>
        /\ \A a \in DOMAIN PublishedIndex.assets :
              \A t \in DOMAIN PublishedIndex.assets[a] :
                 LET entries == PublishedIndex.assets[a][t]
                 IN  \A x, y \in 1..Len(entries) :
                        entries[x].quarter = entries[y].quarter => x = y
        /\ PublishedIndex.totalFiles =
              Cardinality(UNION { TargetsOf("put_data", q) :
                                    q \in PositionsOf("return_true") })
        /\ \A q, r \in PositionsOf("return_true") :
              q # r => TargetsOf("put_data", q) \cap TargetsOf("put_data", r) = {}

=============================================================================
